---- MODULE Spec2Model ----
(***************************************************************************)
(* Authentication, role gate and audit middleware of the school/college   *)
(* management backend (src/main.py).                                       *)
(*                                                                         *)
(* Time is counted in clock ticks, SubSec ticks to the second, so that the *)
(* truncation to whole seconds made by the JWT library is visible.         *)
(***************************************************************************)
EXTENDS Integers, Sequences, FiniteSets, TLC

\* ------------------------------------------------------------------ bounds
\* request slots served concurrently (one task per in-flight request)
MaxSlots == 2
\* requests accepted in one run
MaxRequests == 3
\* tokens issued in one run of the token service
MaxTokens == 2
\* clock ticks per second
SubSec == 2
\* store writes that fail in one run
MaxFaults == 1

\* --------------------------------------------------------- configuration
SECRET_KEY == "dev-secret-key-change-me"
OTHER_KEY == "attacker-key"
ACCESS_TOKEN_EXPIRE_MINUTES == 60 * 24

\* the validity window in whole seconds: timedelta(minutes=...)
WindowSeconds == ACCESS_TOKEN_EXPIRE_MINUTES * 60
WindowTicks == WindowSeconds * SubSec

\* ------------------------------------------------------------ null values
\* Python None where a string is expected (role, ref_id, user_id)
NoneStr == "<None>"
\* Python None where a dict is expected (the anonymous identity)
Anonymous == [anonymous |-> TRUE]
NoToken == [kind |-> "none"]
NoResponse == [status |-> 0, detail |-> "", token |-> NoToken, id |-> NoneStr]

Roles == {"teacher", "student"}

\* ------------------------------------------------------------- exceptions
\* class hierarchy of the exceptions the code names: jose.JWTError and its
\* subclasses, fastapi.HTTPException, a store driver error, bson's InvalidId
Parent(cls) ==
    CASE cls = "ExpiredSignatureError" -> "JWTError"
      [] cls = "JWTClaimsError" -> "JWTError"
      [] cls = "JWTError" -> "Exception"
      [] cls = "HTTPException" -> "Exception"
      [] cls = "StoreError" -> "Exception"
      [] cls = "InvalidId" -> "Exception"
      [] OTHER -> "BaseException"

RECURSIVE IsInstance(_, _)
IsInstance(exc, cls) ==
    IF exc = cls THEN TRUE
    ELSE IF exc = "BaseException" THEN FALSE
    ELSE IsInstance(Parent(exc), cls)

NoExc == "none"

\* -------------------------------------------------------------- the clock
\* datetime.utcnow() truncated to whole seconds: timegm(utctimetuple())
Seconds(t) == t \div SubSec

\* the instants the clock takes: around an issue time and around its expiry
Instants ==
    {0, 1, WindowTicks - 1, WindowTicks, WindowTicks + 1,
     WindowTicks + SubSec, WindowTicks + SubSec + 1}

\* ---------------------------------------------------------- Token Service
\* jwt.encode signs the claims with the key; exp is stored in whole seconds
Jwt(claims, key) == [kind |-> "jwt", sig |-> key, claims |-> claims]

\* create_access_token(data) at clock t, default expires_delta
create_access_token(data, t) ==
    LET expire == Seconds(t) + WindowSeconds
    IN  Jwt([sub |-> data.sub, role |-> data.role, ref_id |-> data.ref_id,
             exp |-> expire], SECRET_KEY)

\* jose's expiry test: raise when exp < now (whole seconds, leeway 0)
Expired(exp, nowS) == exp < nowS

\* jwt.decode(token, key) at clock t: the claims, or the exception raised
jwt_decode(token, key, t) ==
    IF token.kind # "jwt"
      THEN [raised |-> "JWTError", payload |-> Anonymous]
    ELSE IF token.sig # key
      THEN [raised |-> "JWTError", payload |-> Anonymous]
    ELSE IF Expired(token.claims.exp, Seconds(t))
      THEN [raised |-> "ExpiredSignatureError", payload |-> Anonymous]
    ELSE [raised |-> NoExc, payload |-> token.claims]

\* ------------------------------------------------------ Identity Resolver
\* a header value is prefix + token text; absent headers have present = FALSE
NoHeader == [present |-> FALSE, prefix |-> "", token |-> NoToken]
Header(prefix, token) == [present |-> TRUE, prefix |-> prefix, token |-> token]

\* str.lower() on the prefixes in use
Lower(s) ==
    CASE s = "Bearer " -> "bearer "
      [] s = "BEARER " -> "bearer "
      [] s = "Bearer" -> "bearer"
      [] s = "Basic " -> "basic "
      [] OTHER -> s

\* the header is empty text: present, with no characters at all
EmptyText(hdr) == hdr.prefix = "" /\ hdr.token.kind \in {"none", "empty"}

\* the except clause of get_current_user
ResolverCatchesMutant(exc) == IsInstance(exc, "ExpiredSignatureError")
ResolverCatches(exc) == IsInstance(exc, "JWTError")

\* get_current_user(request) at clock t: [raised, user]
get_current_user(hdr, t) ==
    IF ~hdr.present \/ EmptyText(hdr) \/ Lower(hdr.prefix) # "bearer "
      THEN [raised |-> NoExc, user |-> Anonymous]
    ELSE LET d == jwt_decode(hdr.token, SECRET_KEY, t)
         IN  IF d.raised = NoExc THEN [raised |-> NoExc, user |-> d.payload]
             ELSE IF ResolverCatches(d.raised)
               THEN [raised |-> NoExc, user |-> Anonymous]
             ELSE [raised |-> d.raised, user |-> Anonymous]

\* -------------------------------------------------------------- Role Gate
\* user.get("role"): the claim, or None when the payload has none
RoleOf(user) == IF user = Anonymous THEN NoneStr ELSE user.role

require_rolesMutant(roles, user) ==
    IF user = Anonymous
      THEN [status |-> 401, detail |-> "Not authenticated", user |-> Anonymous]
    ELSE IF RoleOf(user) \notin roles
      THEN [status |-> 403, detail |-> "Forbidden for role", user |-> Anonymous]
    ELSE [status |-> 200, detail |-> "", user |-> user]

\* require_roles(*roles)._dep(user): status 200 stands for "returns user"
require_roles(roles, user) ==
    IF user = Anonymous
      THEN [status |-> 401, detail |-> "Not authenticated", user |-> Anonymous]
    ELSE IF roles # {} /\ RoleOf(user) \notin roles
      THEN [status |-> 403, detail |-> "Forbidden for role", user |-> Anonymous]
    ELSE [status |-> 200, detail |-> "", user |-> user]

\* --------------------------------------------------------- Password Hasher
\* pwd_context.hash: a salted digest, the salt drawn afresh at every call
hash_password(password, salt) == [salt |-> salt, digest |-> password]

\* pwd_context.verify
verify_password(plain, hashed) == hashed.digest = plain

\* ------------------------------------------------------------ Record Store
\* str(ObjectId); a document's id is its position in its collection
Str(id) == "oid" \o ToString(id)

\* what an insert can do: succeed, or raise (always, with no database)
WriteOutcomes(dbUp, mayFail) ==
    IF ~dbUp THEN {"StoreError"}
    ELSE IF mayFail THEN {"ok", "StoreError"}
    ELSE {"ok"}

\* the count of failed writes after a write with this outcome
Faulted(dbUp, outcome, n) == IF dbUp /\ outcome # "ok" THEN n + 1 ELSE n

\* create_document(collection, doc): the collection after the insert
create_document(coll, doc) == Append(coll, doc)

\* find_one({"email": email}): the first matching document in natural
\* (insertion) order, or None
find_one(coll, email) ==
    LET hits == {i \in 1..Len(coll) : coll[i].email = email}
    IN  IF hits = {} THEN Anonymous
        ELSE coll[CHOOSE i \in hits : \A j \in hits : i <= j]

\* ------------------------------------------------------------------ state
VARIABLES
    \* database.db is set: the store is configured
    db,
    \* the clock, in ticks
    now,
    \* collection "authuser": the credentials
    authuser,
    \* collection "teacher"
    teacher,
    \* collection "auditlog"
    auditlog,
    \* the in-flight requests, one per slot
    req,
    \* the tokens login has returned, each with the tick it was issued at
    issued,
    \* requests accepted so far
    nreq,
    \* the outcome of the request that finished last
    last,
    \* store writes that have failed while the database was available
    faults,
    \* the last evaluation of the identity resolver and role gate
    gate,
    \* collection "attendancerecord"
    attendancerecord,
    \* collection "submission"
    submission,
    \* the request in flight at the teacher, student and report endpoints
    xch

\* the state of the teacher, student and report endpoints
domvars == <<attendancerecord, submission, xch>>

vars == <<db, now, authuser, teacher, auditlog, req, issued, nreq, last, faults, gate, domvars>>

Slots == 1..MaxSlots

RegisterBodies ==
    { [email |-> "a@x.com", password |-> "pw1", role |-> "teacher", ref_id |-> "t1"],
      [email |-> "a@x.com", password |-> "pw2", role |-> "student", ref_id |-> NoneStr] }

LoginBodies ==
    { [email |-> c[1], password |-> c[2], role |-> NoneStr, ref_id |-> NoneStr] :
        c \in {<<"a@x.com", "pw1">>, <<"a@x.com", "pw2">>} }

TeacherBodies ==
    { [email |-> "t@x.com", password |-> NoneStr, role |-> NoneStr, ref_id |-> NoneStr] }

Bodies(kind) ==
    CASE kind = "register" -> RegisterBodies
      [] kind = "login" -> LoginBodies
      [] OTHER -> TeacherBodies

Kinds == {"register", "login", "add_teacher"}

Path(kind) ==
    CASE kind = "register" -> "/auth/register"
      [] kind = "login" -> "/auth/login"
      [] kind = "approve_attendance" -> "/teachers/attendance/approve"
      [] kind = "grade_submission" -> "/teachers/submissions/grade"
      [] kind = "mark_attendance" -> "/students/attendance"
      [] kind = "attendance_report" -> "/reports/attendance"
      [] OTHER -> "/admin/teachers"

\* the HTTP method of each route
Method(kind) == IF kind = "attendance_report" THEN "GET" ELSE "POST"

\* a token signed with another key
ForgedToken ==
    Jwt([sub |-> "a@x.com", role |-> "teacher", ref_id |-> NoneStr,
         exp |-> Seconds(WindowTicks) + WindowSeconds], OTHER_KEY)

\* the Authorization headers a client sends
ClientHeaders ==
    {NoHeader} \cup {Header("Bearer ", i.tok) : i \in issued}

IdleSlot ==
    [pc |-> "idle", rid |-> 0, kind |-> "login", hdr |-> NoHeader,
     body |-> CHOOSE b \in LoginBodies : TRUE, user |-> Anonymous,
     resp |-> NoResponse, exc |-> NoExc]

\* what became of a finished request: the handler's response, the exception
\* that ended it, the response the caller got and the fate of its audit entry
Outcome(slot, returned, audit, exc) ==
    [rid |-> slot.rid, kind |-> slot.kind, resp |-> slot.resp, exc |-> exc,
     returned |-> returned, audit |-> audit]

NoOutcome == Outcome(IdleSlot, NoResponse, "pending", NoExc)

\* no request is in flight at the teacher, student and report endpoints
IdleExchange ==
    [pc |-> "idle", rid |-> 0, kind |-> "attendance_report", hdr |-> NoHeader,
     body |-> [class_id |-> "c1", start |-> 0, end |-> 0, format |-> "json"],
     user |-> Anonymous, resp |-> NoResponse, exc |-> NoExc, fault |-> "ok"]

NoGate ==
    [pc |-> "idle", hdr |-> NoHeader, roles |-> {}, t |-> 0, raised |-> NoExc,
     user |-> Anonymous, status |-> 0, passed |-> Anonymous, body |-> FALSE]

Init ==
    /\ db \in BOOLEAN
    /\ now = 0
    /\ authuser = <<>>
    /\ teacher = <<>>
    /\ auditlog = <<>>
    /\ req = [r \in Slots |-> IdleSlot]
    /\ issued = {}
    /\ nreq = 0
    /\ last = NoOutcome
    /\ faults = 0
    /\ gate = NoGate
    /\ attendancerecord = <<>>
    /\ submission = <<>>
    /\ xch = IdleExchange

\* ------------------------------------------------------------ HTTP replies
HttpError(status, detail) ==
    [status |-> status, detail |-> detail, token |-> NoToken, id |-> NoneStr]
Created(id) == [status |-> 200, detail |-> "", token |-> NoToken, id |-> Str(id)]
TokenResponse(token) == [status |-> 200, detail |-> "", token |-> token, id |-> NoneStr]
\* ServerErrorMiddleware's reply to an exception nobody handled
InternalServerError == HttpError(500, "Internal Server Error")

\* --------------------------------------------------------- the environment
Tick ==
    /\ \E t \in Instants : t > now /\ now' = t
    /\ UNCHANGED <<db, authuser, teacher, auditlog, req, issued, nreq, last, faults, gate, domvars>>

\* -------------------------------------------------------- Audit middleware
\* the except clause around the identity resolution
ResolveCatches(exc) == IsInstance(exc, "Exception")

\* audit_middleware up to call_next: user = get_current_user(request), any
\* exception giving the anonymous user; escaped names one that got out
MwResolve(hdr, t) ==
    LET g == get_current_user(hdr, t)
    IN  IF g.raised = NoExc THEN [escaped |-> NoExc, user |-> g.user]
        ELSE IF ResolveCatches(g.raised) THEN [escaped |-> NoExc, user |-> Anonymous]
        ELSE [escaped |-> g.raised, user |-> Anonymous]

\* a request reaches audit_middleware, which resolves the identity and calls
\* the handler chain; it is served in the lowest free slot
Arrive(r) ==
    /\ req[r].pc = "idle"
    /\ \A q \in Slots : q < r => req[q].pc # "idle"
    /\ nreq < MaxRequests
    /\ \E kind \in Kinds, hdr \in ClientHeaders :
         \E body \in Bodies(kind) :
           LET m == MwResolve(hdr, now)
               fresh == [IdleSlot EXCEPT !.rid = nreq + 1, !.kind = kind,
                                         !.hdr = hdr, !.body = body,
                                         !.user = m.user]
           IN  IF m.escaped = NoExc
                 THEN /\ req' = [req EXCEPT ![r] = [fresh EXCEPT !.pc = "handler"]]
                      /\ last' = last
                 ELSE /\ req' = req
                      /\ last' = Outcome(fresh, InternalServerError, "bypassed",
                                         m.escaped)
    /\ nreq' = nreq + 1
    /\ UNCHANGED <<db, now, authuser, teacher, auditlog, issued, faults, gate, domvars>>

\* ---------------------------------------------------------- Auth endpoints
\* "if existing:" in register_user
EmailTakenMutant(existing) == FALSE
EmailTaken(existing) == existing # Anonymous

\* register_user, first half: the availability test and the lookup
RegisterLookup(r) ==
    /\ req[r].pc = "handler"
    /\ req[r].kind = "register"
    /\ IF ~db
         THEN req' = [req EXCEPT ![r].pc = "after",
                        ![r].resp = HttpError(500, "Database not available")]
         ELSE LET existing == find_one(authuser, req[r].body.email)
              IN  IF EmailTaken(existing)
                  THEN req' = [req EXCEPT ![r].pc = "after",
                                 ![r].resp = HttpError(400, "Email already registered")]
                  ELSE req' = [req EXCEPT ![r].pc = "reg_insert"]
    /\ UNCHANGED <<db, now, authuser, teacher, auditlog, issued, nreq, last, faults, gate, domvars>>

\* the document register_user builds
AuthUser(id, by, body) ==
    [id |-> id, by |-> by, email |-> body.email,
     password_hash |-> hash_password(body.password, Str(id)),
     role |-> body.role, ref_id |-> body.ref_id]

\* register_user, second half: hash the password and insert the credential
RegisterInsert(r) ==
    /\ req[r].pc = "reg_insert"
    /\ \E outcome \in WriteOutcomes(db, faults < MaxFaults) :
         LET id == Len(authuser) + 1
         IN  IF outcome = "ok"
               THEN /\ authuser' = create_document(authuser,
                                       AuthUser(id, req[r].rid, req[r].body))
                    /\ req' = [req EXCEPT ![r].pc = "after", ![r].resp = Created(id)]
                    /\ faults' = faults
               ELSE /\ authuser' = authuser
                    /\ req' = [req EXCEPT ![r].pc = "after", ![r].exc = outcome]
                    /\ faults' = Faulted(db, outcome, faults)
    /\ UNCHANGED <<db, now, teacher, auditlog, issued, nreq, last, gate, domvars>>

\* the claims login puts in the token: ref_id is the credential's own _id
\* whenever it has one
LoginClaims(user) ==
    [sub |-> user.email, role |-> user.role,
     ref_id |-> IF user.id # 0 THEN Str(user.id) ELSE user.ref_id]

\* the two refusals of login: no such user, and a password that does not match
UserNotFoundMutant == HttpError(404, "User not found")
UserNotFound == HttpError(401, "Invalid credentials")
BadPassword == HttpError(401, "Invalid credentials")

\* login
Login(r) ==
    /\ req[r].pc = "handler"
    /\ req[r].kind = "login"
    /\ IF ~db
         THEN /\ req' = [req EXCEPT ![r].pc = "after",
                           ![r].resp = HttpError(500, "Database not available")]
              /\ issued' = issued
         ELSE LET user == find_one(authuser, req[r].body.email)
              IN  IF user = Anonymous
                  THEN /\ req' = [req EXCEPT ![r].pc = "after",
                                    ![r].resp = UserNotFound]
                       /\ issued' = issued
                ELSE IF ~verify_password(req[r].body.password, user.password_hash)
                  THEN /\ req' = [req EXCEPT ![r].pc = "after",
                                    ![r].resp = BadPassword]
                       /\ issued' = issued
                ELSE LET token == create_access_token(LoginClaims(user), now)
                     IN  /\ req' = [req EXCEPT ![r].pc = "after",
                                       ![r].resp = TokenResponse(token)]
                         /\ issued' = issued \cup {[tok |-> token, at |-> now]}
    /\ UNCHANGED <<db, now, authuser, teacher, auditlog, nreq, last, faults, gate, domvars>>

\* --------------------------------------------------------- Admin endpoints
\* add_teacher: Depends(get_current_user), then one insert
AddTeacher(r) ==
    /\ req[r].pc = "handler"
    /\ req[r].kind = "add_teacher"
    /\ LET g == get_current_user(req[r].hdr, now)
       IN  IF g.raised # NoExc
             THEN /\ req' = [req EXCEPT ![r].pc = "after", ![r].exc = g.raised]
                  /\ teacher' = teacher
                  /\ faults' = faults
             ELSE \E outcome \in WriteOutcomes(db, faults < MaxFaults) :
                    LET id == Len(teacher) + 1
                    IN  IF outcome = "ok"
                          THEN /\ teacher' = create_document(teacher,
                                      [id |-> id, by |-> req[r].rid,
                                       email |-> req[r].body.email])
                               /\ req' = [req EXCEPT ![r].pc = "after",
                                             ![r].resp = Created(id)]
                               /\ faults' = faults
                          ELSE /\ teacher' = teacher
                               /\ req' = [req EXCEPT ![r].pc = "after", ![r].exc = outcome]
                               /\ faults' = Faulted(db, outcome, faults)
    /\ UNCHANGED <<db, now, authuser, auditlog, issued, nreq, last, gate, domvars>>

\* ------------------------------------------------- Audit middleware, tail
\* call_next has returned (or raised): the handler chain is finished
CallNextReturnedMutant(slot) == slot.pc \in {"handler", "reg_insert", "after"}
CallNextReturned(slot) == slot.pc = "after"

\* the except clause around the audit write
AuditCatchesMutant(exc) == IsInstance(exc, "JWTError")
AuditCatches(exc) == IsInstance(exc, "Exception")

\* the AuditLog document of a request
AuditLogMutant(slot) ==
    [rid |-> slot.rid,
     user_id |-> IF slot.user = Anonymous THEN NoneStr ELSE slot.user.ref_id,
     role |-> RoleOf(slot.user), action |-> "request", path |-> Path(slot.kind),
     method |-> Method(slot.kind), status |-> 200]

AuditLog(slot) ==
    [rid |-> slot.rid,
     user_id |-> IF slot.user = Anonymous THEN NoneStr ELSE slot.user.ref_id,
     role |-> RoleOf(slot.user), action |-> "request", path |-> Path(slot.kind),
     method |-> Method(slot.kind), status |-> slot.resp.status]

\* audit_middleware after call_next: write the entry, swallow a failure,
\* return the handler's response; an exception of the handler passes through
Audit(r) ==
    /\ CallNextReturned(req[r])
    /\ req' = [req EXCEPT ![r] = IdleSlot]
    /\ IF req[r].exc # NoExc
         THEN /\ last' = Outcome(req[r], InternalServerError, "bypassed", req[r].exc)
              /\ UNCHANGED <<auditlog, faults>>
       ELSE IF ~db
         THEN /\ last' = Outcome(req[r], req[r].resp, "skipped", NoExc)
              /\ UNCHANGED <<auditlog, faults>>
       ELSE \E outcome \in WriteOutcomes(db, faults < MaxFaults) :
              /\ faults' = Faulted(db, outcome, faults)
              /\ IF outcome = "ok"
                   THEN /\ auditlog' = create_document(auditlog, AuditLog(req[r]))
                        /\ last' = Outcome(req[r], req[r].resp, "written", NoExc)
                 ELSE IF AuditCatches(outcome)
                   THEN /\ auditlog' = auditlog
                        /\ last' = Outcome(req[r], req[r].resp, "swallowed", NoExc)
                 ELSE /\ auditlog' = auditlog
                      /\ last' = Outcome(req[r], InternalServerError, "failed", outcome)
    /\ UNCHANGED <<db, now, authuser, teacher, issued, nreq, gate, domvars>>

\* the requests of one run are served within one instant of the clock; the
\* passing of time is followed in SpecAuth
Next ==
    \/ \E r \in Slots : Arrive(r)
    \/ \E r \in Slots : RegisterLookup(r)
    \/ \E r \in Slots : RegisterInsert(r)
    \/ \E r \in Slots : Login(r)
    \/ \E r \in Slots : AddTeacher(r)
    \/ \E r \in Slots : Audit(r)

Spec == Init /\ [][Next]_vars

\* ------------------------------------- Token service and role gate alone
\* the claims a token is issued for
TokenData ==
    { [sub |-> "a@x.com", role |-> "teacher", ref_id |-> "oid1"],
      [sub |-> "b@x.com", role |-> "student", ref_id |-> "oid2"],
      [sub |-> "c@x.com", role |-> "admin", ref_id |-> NoneStr] }

EmptyToken == [kind |-> "empty"]
GarbageToken == [kind |-> "garbage"]

\* the Authorization headers of every shape
AllHeaders ==
    {NoHeader, Header("", EmptyToken), Header("Bearer", EmptyToken),
     Header("Bearer ", EmptyToken), Header("Bearer ", GarbageToken),
     Header("Bearer ", ForgedToken), Header("Basic ", GarbageToken)}
      \cup {Header(p, i.tok) : p \in {"Bearer ", "bearer ", "Basic "}, i \in issued}

\* the role sets a gate is configured with
GateRoleSets == SUBSET Roles

\* create_access_token is called at the present instant
Issue ==
    /\ gate.pc = "idle"
    /\ Cardinality(issued) < MaxTokens
    /\ \E data \in TokenData :
         issued' = issued \cup {[tok |-> create_access_token(data, now), at |-> now]}
    /\ UNCHANGED <<db, now, authuser, teacher, auditlog, req, nreq, last, faults, gate, domvars>>

\* a route declared with Depends(require_roles(*roles)) receives the one
\* request of the run: get_current_user is resolved first, then the gate
Guard ==
    /\ gate.pc = "idle"
    /\ \E hdr \in AllHeaders, roles \in GateRoleSets :
         LET g == get_current_user(hdr, now)
             q == require_roles(roles, g.user)
             seen == [NoGate EXCEPT !.hdr = hdr, !.roles = roles, !.t = now]
         IN  gate' = IF g.raised # NoExc
                       THEN [seen EXCEPT !.pc = "raised", !.raised = g.raised,
                                         !.status = 500]
                       ELSE [seen EXCEPT !.pc = "guarded", !.user = g.user,
                                         !.status = q.status, !.passed = q.user]
    /\ UNCHANGED <<db, now, authuser, teacher, auditlog, req, issued, nreq, last, faults, domvars>>

\* the handler body runs once every dependency has returned
Body ==
    /\ gate.pc = "guarded"
    /\ gate.status = 200
    /\ gate' = [gate EXCEPT !.pc = "body", !.body = TRUE]
    /\ UNCHANGED <<db, now, authuser, teacher, auditlog, req, issued, nreq, last, faults, domvars>>

InitAuth == Init /\ db

NextAuth == Tick \/ Issue \/ Guard \/ Body

SpecAuth == InitAuth /\ [][NextAuth]_vars

\* ------------------------------ Teacher, student and report endpoints
\* requests served in one run of these endpoints
MaxOps == 2

\* the collections the endpoints below read and write
Domain(t, a, s) == [teacher |-> t, attendancerecord |-> a, submission |-> s]

\* what a handler hands back: a response or an exception, and the collection
Returns(resp, coll) == [resp |-> resp, exc |-> NoExc, coll |-> coll]
Raises(exc, coll) == [resp |-> NoResponse, exc |-> exc, coll |-> coll]

\* the JSON bodies of the successful replies
Marked(id) ==
    [status |-> 200, detail |-> "", token |-> NoToken, id |-> Str(id),
     approved |-> FALSE]
Changed(label, n) ==
    [status |-> 200, detail |-> label, token |-> NoToken, id |-> NoneStr,
     updated |-> n]
Report(media, rows) ==
    [status |-> 200, detail |-> "", token |-> NoToken, id |-> NoneStr,
     media |-> media, rows |-> rows]

\* bson.ObjectId(text): the id a well-formed text names; any other text
\* raises InvalidId
ObjectId(text) ==
    LET ids == {n \in 1..(MaxOps + 2) : Str(n) = text}
    IN  IF ids = {} THEN [raised |-> "InvalidId", id |-> 0]
        ELSE [raised |-> NoExc, id |-> CHOOSE n \in ids : TRUE]

\* collection.update_one({"_id": id}, {"$set": fields})
update_one(coll, id, fields) ==
    IF id \in 1..Len(coll)
      THEN [matched_count |-> 1, modified_count |-> 1,
            coll |-> [coll EXCEPT ![id] = fields @@ @]]
      ELSE [matched_count |-> 0, modified_count |-> 0, coll |-> coll]

\* an exception raised inside a try block, and no exception
Raised(cls, status, detail) == [cls |-> cls, status |-> status, detail |-> detail]
NoRaise == Raised(NoExc, 0, "")

\* str(e): an HTTPException prints as "status: detail", the others as their
\* message, which stands here as the class name
StrOf(e) ==
    IF e.cls = "HTTPException" THEN ToString(e.status) \o ": " \o e.detail
    ELSE e.cls

\* "except Exception as e: raise HTTPException(status_code=400, detail=str(e))"
\* around the try block of approve_attendance and of grade_submission
ExceptAs400(raised, done, coll) ==
    IF raised = NoRaise THEN done
    ELSE IF IsInstance(raised.cls, "Exception")
      THEN Returns(HttpError(400, StrOf(raised)), coll)
    ELSE Raises(raised.cls, coll)

\* approve_attendance(payload); outcome is what the store operation does
approve_attendance(payload, coll, dbUp, outcome, t) ==
    IF ~dbUp THEN Returns(HttpError(500, "Database not available"), coll)
    ELSE LET oid == ObjectId(payload.record_id)
             res == update_one(coll, oid.id,
                        [approved |-> TRUE, approved_by |-> payload.approved_by,
                         updated_at |-> t])
             raised ==
                 IF oid.raised # NoExc THEN Raised(oid.raised, 0, "")
                 ELSE IF outcome # "ok" THEN Raised(outcome, 0, "")
                 ELSE IF res.matched_count = 0
                   THEN Raised("HTTPException", 404, "Attendance record not found")
                 ELSE NoRaise
         IN  ExceptAs400(raised,
                 Returns(Changed("approved", res.modified_count), res.coll), coll)

\* grade_submission(payload)
grade_submission(payload, coll, dbUp, outcome, t) ==
    IF ~dbUp THEN Returns(HttpError(500, "Database not available"), coll)
    ELSE LET oid == ObjectId(payload.submission_id)
             res == update_one(coll, oid.id,
                        [score |-> payload.score, graded_by |-> payload.graded_by,
                         updated_at |-> t])
             raised ==
                 IF oid.raised # NoExc THEN Raised(oid.raised, 0, "")
                 ELSE IF outcome # "ok" THEN Raised(outcome, 0, "")
                 ELSE IF res.matched_count = 0
                   THEN Raised("HTTPException", 404, "Submission not found")
                 ELSE NoRaise
         IN  ExceptAs400(raised,
                 Returns(Changed("graded", res.modified_count), res.coll), coll)

\* mark_attendance(payload, user): one insert; user is not looked at
mark_attendanceMutant(user, payload, coll, outcome) ==
    IF user = Anonymous THEN Returns(HttpError(401, "Not authenticated"), coll)
    ELSE IF outcome # "ok" THEN Raises(outcome, coll)
    ELSE Returns(Marked(Len(coll) + 1),
                 create_document(coll, [id |-> Len(coll) + 1] @@ payload))

mark_attendance(user, payload, coll, outcome) ==
    IF outcome # "ok" THEN Raises(outcome, coll)
    ELSE Returns(Marked(Len(coll) + 1),
                 create_document(coll, [id |-> Len(coll) + 1] @@ payload))

\* add_teacher(payload, user): one insert; user is not looked at
add_teacher(user, payload, coll, outcome, rid) ==
    IF outcome # "ok" THEN Raises(outcome, coll)
    ELSE Returns(Created(Len(coll) + 1),
                 create_document(coll, [id |-> Len(coll) + 1, by |-> rid,
                                        email |-> payload.email]))

\* ---------------------------------------------------- attendance report
\* a bound of the date range that the query leaves open (None)
NoDate == 0

\* collection.find(filt): the records of the class, within the date range
\* when the query gives one
find(coll, class_id, start, end) ==
    SelectSeq(coll, LAMBDA r : /\ r.class_id = class_id
                               /\ (start # NoDate => r.date >= start)
                               /\ (end # NoDate => r.date <= end))

\* dict.get(k, default) and d[k] = v
DictGet(d, k, default) == IF k \in DOMAIN d THEN d[k] ELSE default
DictSet(d, k, v) == [x \in DOMAIN d \cup {k} |-> IF x = k THEN v ELSE d[x]]

\* the counters a student's entry of the summary starts with
ZeroCounts ==
    [k \in {"present", "absent", "late", "excused", "total"} |-> 0]

\* the summary before the loop: no student, in insertion order
EmptySummary == [order |-> <<>>, of |-> <<>>]

\* the body of "for r in records"
Count(summary, r) ==
    LET sid == r.student_id
        status == r.status
        seen == IF sid \in DOMAIN summary.of THEN summary
                ELSE [order |-> Append(summary.order, sid),
                      of |-> DictSet(summary.of, sid, ZeroCounts)]
        bumped == DictSet(seen.of[sid], status, DictGet(seen.of[sid], status, 0) + 1)
        totalled == DictSet(bumped, "total", bumped["total"] + 1)
    IN  [order |-> seen.order, of |-> DictSet(seen.of, sid, totalled)]

RECURSIVE Summarise(_, _)
Summarise(records, summary) ==
    IF records = <<>> THEN summary
    ELSE Summarise(Tail(records), Count(summary, Head(records)))

\* rows = [(sid, present, absent, late, excused, total) ...]
Rows(summary) ==
    [i \in 1..Len(summary.order) |->
        LET v == summary.of[summary.order[i]]
        IN  [student_id |-> summary.order[i], present |-> v["present"],
             absent |-> v["absent"], late |-> v["late"],
             excused |-> v["excused"], total |-> v["total"]]]

\* ",".join(map(str, row)) + "\n"
CsvLine(row) ==
    row.student_id \o "," \o ToString(row.present) \o "," \o ToString(row.absent)
      \o "," \o ToString(row.late) \o "," \o ToString(row.excused)
      \o "," \o ToString(row.total) \o "\n"

\* the lines gen() yields
Csv(rows) ==
    <<"student_id,present,absent,late,excused,total\n">>
      \o [i \in 1..Len(rows) |-> CsvLine(rows[i])]

\* attendance_report(class_id, start, end, format, user)
attendance_report(query, coll, dbUp, outcome) ==
    IF ~dbUp THEN Returns(HttpError(500, "Database not available"), coll)
    ELSE IF outcome # "ok" THEN Raises(outcome, coll)
    ELSE LET records == find(coll, query.class_id, query.start, query.end)
             rows == Rows(Summarise(records, EmptySummary))
         IN  IF query.format = "csv"
               THEN Returns(Report("text/csv", Csv(rows)), coll)
               ELSE Returns(Report("application/json", rows), coll)

\* ------------------------------------------------- requests and the run
\* AttendanceRecord payloads: status is any text
AttendanceBodies ==
    { [class_id |-> b[1], student_id |-> b[2], date |-> b[3], status |-> b[4],
       approved |-> FALSE, approved_by |-> NoneStr] :
        b \in { <<"c1", "s1", 1, "present">>, <<"c1", "s1", 2, "sick">>,
                <<"c1", "s2", 1, "absent">>, <<"c1", "s1", 1, "total">>,
                <<"c2", "s1", 2, "late">> } }

\* ids as a client writes them: of the first document, of no document, and
\* text that is no id at all
ClientIds == {Str(1), Str(MaxOps + 1), "not-an-id"}

ApproveBodies == { [record_id |-> i, approved_by |-> "t1"] : i \in ClientIds }

GradeBodies ==
    { [submission_id |-> i, score |-> 5, graded_by |-> "t1"] : i \in ClientIds }

ReportQueries ==
    { [class_id |-> q[1], start |-> q[2], end |-> q[3], format |-> q[4]] :
        q \in { <<"c1", NoDate, NoDate, "json">>, <<"c1", NoDate, NoDate, "csv">>,
                <<"c1", 2, NoDate, "json">>, <<"c1", NoDate, 1, "json">>,
                <<"c2", NoDate, NoDate, "json">> } }

DomainKinds ==
    {"add_teacher", "mark_attendance", "approve_attendance", "grade_submission",
     "attendance_report"}

DomainBodies(kind) ==
    CASE kind = "mark_attendance" -> AttendanceBodies
      [] kind = "approve_attendance" -> ApproveBodies
      [] kind = "grade_submission" -> GradeBodies
      [] kind = "attendance_report" -> ReportQueries
      [] OTHER -> TeacherBodies

\* a route with user=Depends(get_current_user): the dependency is resolved,
\* then the handler runs on the collection it uses
Endpoint(kind, hdr, body, store, dbUp, outcome, t, rid) ==
    LET g == get_current_user(hdr, t)
        h == CASE kind = "mark_attendance" ->
                    mark_attendance(g.user, body, store.attendancerecord, outcome)
               [] kind = "approve_attendance" ->
                    approve_attendance(body, store.attendancerecord, dbUp, outcome, t)
               [] kind = "grade_submission" ->
                    grade_submission(body, store.submission, dbUp, outcome, t)
               [] kind = "attendance_report" ->
                    attendance_report(body, store.attendancerecord, dbUp, outcome)
               [] OTHER ->
                    add_teacher(g.user, body, store.teacher, outcome, rid)
        coll == IF kind \in {"mark_attendance", "approve_attendance",
                             "attendance_report"} THEN "attendancerecord"
                ELSE IF kind = "grade_submission" THEN "submission"
                ELSE "teacher"
    IN  IF g.raised # NoExc
          THEN [resp |-> NoResponse, exc |-> g.raised, store |-> store]
          ELSE [resp |-> h.resp, exc |-> h.exc,
                store |-> [store EXCEPT ![coll] = h.coll]]

\* a request reaches audit_middleware, which resolves the identity and calls
\* the handler chain
Receive ==
    /\ xch.pc = "idle"
    /\ nreq < MaxOps
    /\ \E kind \in DomainKinds, hdr \in ClientHeaders :
         \E body \in DomainBodies(kind) :
           LET m == MwResolve(hdr, now)
               fresh == [IdleExchange EXCEPT !.rid = nreq + 1, !.kind = kind,
                                             !.hdr = hdr, !.body = body,
                                             !.user = m.user]
           IN  xch' = IF m.escaped = NoExc THEN [fresh EXCEPT !.pc = "handler"]
                      ELSE [fresh EXCEPT !.pc = "after", !.exc = m.escaped]
    /\ nreq' = nreq + 1
    /\ UNCHANGED <<db, now, authuser, teacher, auditlog, req, issued, last, faults,
                   gate, attendancerecord, submission>>

\* the handler chain serves the request
Handle ==
    /\ xch.pc = "handler"
    /\ \E outcome \in WriteOutcomes(db, faults < MaxFaults) :
         LET e == Endpoint(xch.kind, xch.hdr, xch.body,
                           Domain(teacher, attendancerecord, submission),
                           db, outcome, now, xch.rid)
         IN  /\ xch' = [xch EXCEPT !.pc = "after", !.resp = e.resp,
                                   !.exc = e.exc, !.fault = outcome]
             /\ teacher' = e.store.teacher
             /\ attendancerecord' = e.store.attendancerecord
             /\ submission' = e.store.submission
             /\ faults' = Faulted(db, outcome, faults)
    /\ UNCHANGED <<db, now, authuser, auditlog, req, issued, nreq, last, gate>>

\* audit_middleware after call_next, for the request in xch
Log ==
    /\ xch.pc = "after"
    /\ xch' = IdleExchange
    /\ IF xch.exc # NoExc
         THEN /\ last' = Outcome(xch, InternalServerError, "bypassed", xch.exc)
              /\ UNCHANGED <<auditlog, faults>>
       ELSE IF ~db
         THEN /\ last' = Outcome(xch, xch.resp, "skipped", NoExc)
              /\ UNCHANGED <<auditlog, faults>>
       ELSE \E outcome \in WriteOutcomes(db, faults < MaxFaults) :
              /\ faults' = Faulted(db, outcome, faults)
              /\ IF outcome = "ok"
                   THEN /\ auditlog' = create_document(auditlog, AuditLog(xch))
                        /\ last' = Outcome(xch, xch.resp, "written", NoExc)
                 ELSE IF AuditCatches(outcome)
                   THEN /\ auditlog' = auditlog
                        /\ last' = Outcome(xch, xch.resp, "swallowed", NoExc)
                 ELSE /\ auditlog' = auditlog
                      /\ last' = Outcome(xch, InternalServerError, "failed", outcome)
    /\ UNCHANGED <<db, now, authuser, teacher, req, issued, nreq, gate,
                   attendancerecord, submission>>

\* a submission handed in earlier, not yet graded
UngradedSubmission ==
    [id |-> 1, assignment_id |-> "a1", student_id |-> "s1", score |-> -1,
     graded_by |-> NoneStr]

\* the run starts a day after the first login: one token has expired, one
\* is fresh; one submission is in the store
InitDomain ==
    /\ db \in BOOLEAN
    /\ now = WindowTicks + SubSec
    /\ authuser = <<>>
    /\ teacher = <<>>
    /\ auditlog = <<>>
    /\ req = [r \in Slots |-> IdleSlot]
    /\ issued =
         { [tok |-> create_access_token(
                      [sub |-> "a@x.com", role |-> "teacher", ref_id |-> "oid1"], 0),
            at |-> 0],
           [tok |-> create_access_token(
                      [sub |-> "b@x.com", role |-> "student", ref_id |-> "oid2"],
                      WindowTicks + SubSec),
            at |-> WindowTicks + SubSec] }
    /\ nreq = 0
    /\ last = NoOutcome
    /\ faults = 0
    /\ gate = NoGate
    /\ attendancerecord = <<>>
    /\ submission = <<UngradedSubmission>>
    /\ xch = IdleExchange

NextDomain == Receive \/ Handle \/ Log

SpecDomain == InitDomain /\ [][NextDomain]_vars

\* ================================================================ claims
\* the positions of the audit entries of request rid
AuditEntriesOf(rid) == {i \in 1..Len(auditlog) : auditlog[i].rid = rid}

\* the header names the bearer scheme, in any letter case, before a token
BearerForm(hdr) == hdr.present /\ hdr.prefix \in {"Bearer ", "bearer "}

\* some credential of this email matches this password
Matches(coll, body) ==
    \E i \in 1..Len(coll) :
        /\ coll[i].email = body.email
        /\ coll[i].password_hash.digest = body.password

Registered(coll, email) == \E i \in 1..Len(coll) : coll[i].email = email

\* ---------------------------------------------------------------------
\* C1: require_roles(R) has exactly three outcomes. An anonymous identity is
\* refused with 401; an identity whose role is not in a non-empty R is refused
\* with 403; in both cases the handler body does not run. Every other
\* identity (role in R, or R empty) is passed through to the handler.
C1_RoleGateOutcomes ==
    gate.pc \in {"guarded", "body"} =>
        /\ gate.status \in {401, 403, 200}
        /\ gate.user = Anonymous => gate.status = 401 /\ ~gate.body
        /\ (gate.user # Anonymous /\ gate.roles # {} /\ gate.user.role \notin gate.roles)
             => gate.status = 403 /\ ~gate.body
        /\ (gate.user # Anonymous /\ (gate.roles = {} \/ gate.user.role \in gate.roles))
             => gate.status = 200 /\ gate.passed = gate.user
        /\ gate.body => gate.status = 200

\* a gate for teachers has refused a student
C1_Witness ==
    /\ gate.pc = "guarded"
    /\ gate.roles = {"teacher"}
    /\ gate.user # Anonymous
    /\ gate.user.role = "student"
    /\ gate.status = 403

\* ---------------------------------------------------------------------
\* C2: a registration of an email not yet in the credential store succeeds
\* and returns an id, and every later login with the same email and password
\* succeeds and returns a token that verifies at the time it is returned.
C2_RegisterThenLogin ==
    [][\A r \in Slots :
         /\ (/\ req[r].pc = "reg_insert"
             /\ req'[r].pc = "after"
             /\ req'[r].exc = NoExc)
              => /\ req'[r].resp.status = 200
                 /\ req'[r].resp.id # NoneStr
         /\ (/\ req[r].pc = "handler"
             /\ req[r].kind = "login"
             /\ req'[r].pc = "after"
             /\ Matches(authuser, req[r].body))
              => /\ req'[r].resp.status = 200
                 /\ jwt_decode(req'[r].resp.token, SECRET_KEY, now).raised = NoExc
      ]_vars

\* ---------------------------------------------------------------------
\* C3: a registration whose email is already in the credential store is
\* refused with 400 "Email already registered" and leaves the credential
\* store as it was.
C3_DuplicateRegisterRefused ==
    [][\A r \in Slots :
         (/\ req[r].pc = "handler"
          /\ req[r].kind = "register"
          /\ req'[r].pc # "handler"
          /\ Registered(authuser, req[r].body.email))
           => /\ req'[r].pc = "after"
              /\ req'[r].resp = HttpError(400, "Email already registered")
              /\ authuser' = authuser
      ]_vars

\* a registration has been refused although its password, role and ref_id
\* differ from the stored credential's
C3_Witness ==
    \E r \in Slots :
        /\ req[r].kind = "register"
        /\ req[r].pc = "after"
        /\ req[r].resp.status = 400
        /\ Len(authuser) = 1
        /\ authuser[1].email = req[r].body.email
        /\ authuser[1].role # req[r].body.role

\* ---------------------------------------------------------------------
\* C4: with the store available, a login whose password matches no credential
\* of its email, registered or not, is refused with 401 "Invalid
\* credentials"; the refusal is the same in both cases, no token is issued and
\* the credential store is unchanged.
C4_LoginRefusedAlike ==
    [][\A r \in Slots :
         (/\ req[r].pc = "handler"
          /\ req[r].kind = "login"
          /\ req'[r].pc = "after"
          /\ db
          /\ ~Matches(authuser, req[r].body))
           => /\ req'[r].resp = HttpError(401, "Invalid credentials")
              /\ req'[r].resp.token = NoToken
              /\ issued' = issued
              /\ authuser' = authuser
      ]_vars

\* a login with a registered email and a wrong password has been refused
C4_Witness ==
    \E r \in Slots :
        /\ req[r].kind = "login"
        /\ req[r].pc = "after"
        /\ req[r].resp.status = 401
        /\ Registered(authuser, req[r].body.email)
        /\ ~Matches(authuser, req[r].body)

\* ---------------------------------------------------------------------
\* C5: a token issued at time T is accepted at every time t with
\* T <= t < T + 24h and refused at every t >= T + 24h, T + 24h included.
C5_TokenWindow ==
    gate.pc # "idle" =>
        \A i \in issued :
            gate.hdr = Header("Bearer ", i.tok) =>
                (gate.user # Anonymous <=> gate.t < i.at + WindowTicks)

\* ---------------------------------------------------------------------
\* C6: get_current_user never raises. It yields an identity exactly when the
\* header has the bearer form and its token passes jwt.decode, and then the
\* identity is the token's claims; an absent header, another form, an empty
\* token, a bad signature and an expired token all yield the anonymous user.
C6_ResolverNeverRaises ==
    gate.pc # "idle" =>
        /\ gate.pc # "raised"
        /\ gate.raised = NoExc
        /\ gate.user # Anonymous <=>
              (/\ BearerForm(gate.hdr)
               /\ jwt_decode(gate.hdr.token, SECRET_KEY, gate.t).raised = NoExc)
        /\ gate.user # Anonymous => gate.user = gate.hdr.token.claims

\* a bearer token signed with another key has been resolved to the anonymous
\* user
C6_Witness ==
    /\ gate.pc = "guarded"
    /\ gate.hdr = Header("Bearer ", ForgedToken)
    /\ gate.user = Anonymous

C8_AuditNeverChangesResponse ==
    (last.rid # 0 /\ last.resp # NoResponse) =>
        /\ last.returned = last.resp
        /\ last.exc = NoExc

\* an audit write has failed and the caller still got the handler's response
C8_Witness ==
    /\ last.rid # 0
    /\ last.audit = "swallowed"
    /\ last.resp.status = 200
    /\ last.returned = last.resp

\* ---------------------------------------------------------------------
\* C9: within a request the audit entry is written after the handler has
\* finished: no audit entry of a request exists while its handler is running
\* or has yet to be audited, every store write of the handler is made while
\* the request has no audit entry, and the entry is written for a request
\* whose handler has returned, with the status of that response.
C9_AuditAfterHandler ==
    /\ [](\A r \in Slots :
            req[r].pc \in {"handler", "reg_insert", "after"}
              => AuditEntriesOf(req[r].rid) = {})
    /\ [][/\ \A i \in (Len(authuser) + 1)..Len(authuser') :
                AuditEntriesOf(authuser'[i].by) = {}
          /\ \A i \in (Len(teacher) + 1)..Len(teacher') :
                AuditEntriesOf(teacher'[i].by) = {}
          /\ \A i \in (Len(auditlog) + 1)..Len(auditlog') :
                \E r \in Slots :
                    /\ req[r].rid = auditlog'[i].rid
                    /\ req[r].pc = "after"
                    /\ req[r].resp # NoResponse
                    /\ auditlog'[i].status = req[r].resp.status
         ]_vars

\* a request whose handler wrote a credential has been audited
C9_Witness ==
    \E i \in 1..Len(authuser) : AuditEntriesOf(authuser[i].by) # {}

\* ---------------------------------------------------------------------
\* C10: under any interleaving of concurrent registrations the credential
\* store holds at most one credential per email.
C10_EmailUnique ==
    \A i, j \in 1..Len(authuser) :
        i # j => authuser[i].email # authuser[j].email

\* ---------------------------------------------------------------------
\* C11: the token of a successful login for credential C carries sub =
\* C.email, role = C.role and ref_id = C.ref_id, the ref_id given at
\* registration (null when none was given); a request that presents the token
\* is served with these claims as its identity, and its audit entry names the
\* identity's ref_id and role.
C11_TokenCarriesCredential ==
    [][\A r \in Slots :
         /\ (/\ req[r].pc = "handler"
             /\ req[r].kind = "login"
             /\ req'[r].pc = "after"
             /\ req'[r].resp.token # NoToken)
              => LET C == find_one(authuser, req[r].body.email)
                     claims == req'[r].resp.token.claims
                 IN  /\ claims.sub = C.email
                     /\ claims.role = C.role
                     /\ claims.ref_id = C.ref_id
         /\ (/\ req[r].pc = "idle"
             /\ req'[r].pc = "handler"
             /\ req'[r].hdr # NoHeader)
              => req'[r].user = req'[r].hdr.token.claims
         /\ (/\ req[r].pc = "after"
             /\ req'[r].pc = "idle"
             /\ req[r].user # Anonymous
             /\ Len(auditlog') > Len(auditlog))
              => /\ auditlog'[Len(auditlog')].user_id = req[r].user.ref_id
                 /\ auditlog'[Len(auditlog')].role = req[r].user.role
      ]_vars

\* ---------------------------------------------------------------------
\* C12: at an endpoint that only resolves the identity, a request and the
\* same request under any other Authorization header (absent, malformed, with
\* an invalid token, with a valid token of any role), served in the same
\* state with the same behaviour of the store, get the same response and
\* make the same change to the teacher, attendance and submission
\* collections; their audit entries are equal but for user_id and role.
C12_HeaderIndependence ==
    [][/\ (xch.pc = "handler" /\ xch'.pc = "after")
            => \A h \in AllHeaders :
                 LET e == Endpoint(xch.kind, h, xch.body,
                                   Domain(teacher, attendancerecord, submission),
                                   db, xch'.fault, now, xch.rid)
                 IN  /\ MwResolve(h, now).escaped = NoExc
                     /\ e.resp = xch'.resp
                     /\ e.exc = xch'.exc
                     /\ e.store = Domain(teacher', attendancerecord', submission')
       /\ (xch.pc = "after" /\ xch'.pc = "idle" /\ Len(auditlog') > Len(auditlog))
            => \A h \in AllHeaders :
                 LET twin == [xch EXCEPT !.hdr = h, !.user = MwResolve(h, now).user]
                     entry == auditlog'[Len(auditlog')]
                 IN  [AuditLog(twin) EXCEPT !.user_id = entry.user_id,
                                            !.role = entry.role] = entry
      ]_vars

\* two attendance marks, one anonymous and one by a student, have both been
\* accepted and audited with the same status
C12_Witness ==
    \E i, j \in 1..Len(auditlog) :
        /\ auditlog[i].path = "/students/attendance"
        /\ auditlog[j].path = "/students/attendance"
        /\ auditlog[i].status = 200
        /\ auditlog[j].status = 200
        /\ auditlog[i].role = NoneStr
        /\ auditlog[j].role = "student"
        /\ Len(attendancerecord) = 2

\* ---------------------------------------------------------------------
\* C13: with the store available, approve_attendance with a well-formed
\* record_id that matches no attendance record answers 404 "Attendance record
\* not found", and grade_submission with a well-formed submission_id that
\* matches no submission answers 404 "Submission not found"; neither changes
\* a record. Either answers 400 only when the id is malformed or the store
\* operation fails.
C13_NotFoundIs404 ==
    [][(xch.pc = "handler" /\ xch'.pc = "after" /\ db) =>
         LET wellFormed(text) == ObjectId(text).raised = NoExc
             missing(text, coll) == ObjectId(text).id \notin 1..Len(coll)
         IN  /\ (/\ xch.kind = "approve_attendance"
                 /\ xch'.fault = "ok"
                 /\ wellFormed(xch.body.record_id)
                 /\ missing(xch.body.record_id, attendancerecord))
                  => /\ xch'.resp = HttpError(404, "Attendance record not found")
                     /\ attendancerecord' = attendancerecord
             /\ (/\ xch.kind = "grade_submission"
                 /\ xch'.fault = "ok"
                 /\ wellFormed(xch.body.submission_id)
                 /\ missing(xch.body.submission_id, submission))
                  => /\ xch'.resp = HttpError(404, "Submission not found")
                     /\ submission' = submission
             /\ (xch.kind = "approve_attendance" /\ xch'.resp.status = 400)
                  => ~wellFormed(xch.body.record_id) \/ xch'.fault # "ok"
             /\ (xch.kind = "grade_submission" /\ xch'.resp.status = 400)
                  => ~wellFormed(xch.body.submission_id) \/ xch'.fault # "ok"
      ]_vars

\* ---------------------------------------------------------------------
\* C14: the rows of an attendance report, as its JSON output lists them: one
\* row for each student_id among the records matching the query and no other
\* row; a row's total is the number of matching records of its student, and
\* is the sum of its present, absent, late and excused.
C14_ReportRows ==
    (/\ xch.pc = "after"
     /\ xch.kind = "attendance_report"
     /\ xch.resp.status = 200
     /\ xch.body.format = "json") =>
        LET records == find(attendancerecord, xch.body.class_id,
                            xch.body.start, xch.body.end)
            students == {records[i].student_id : i \in 1..Len(records)}
            rows == xch.resp.rows
        IN  /\ \A sid \in students :
                 Cardinality({k \in 1..Len(rows) : rows[k].student_id = sid}) = 1
            /\ \A k \in 1..Len(rows) :
                 /\ rows[k].student_id \in students
                 /\ rows[k].total =
                      Cardinality({i \in 1..Len(records) :
                                     records[i].student_id = rows[k].student_id})
                 /\ rows[k].total = rows[k].present + rows[k].absent
                                      + rows[k].late + rows[k].excused

====
